---- MODULE Spec2Model ----
(***************************************************************************)
(* starlight-plugin-icons: the icon resolver (lib/material-icons), the     *)
(* icon data store behind it and the safelist generator (lib/safelist).    *)
(*                                                                         *)
(* JavaScript strings are sequences of one-character strings, so that      *)
(* toLowerCase, trim, split, endsWith and replace are computed as the code *)
(* computes them.  null and undefined are the two sentinel tuples NULL and *)
(* UNDEFINED, whose only element is no character.                          *)
(***************************************************************************)
EXTENDS Integers, Sequences, FiniteSets, TLC

\* ------------------------------------------------------------------ values

NULL == <<"null">>
UNDEFINED == <<"undefined">>

\* JavaScript truthiness of a string | null | undefined.
Truthy(v) == v # NULL /\ v # UNDEFINED /\ v # <<>>

\* ----------------------------------------------------------------- strings

UpperChars == <<"A", "E", "J", "L", "S", "T", "V", "X">>
LowerChars == <<"a", "e", "j", "l", "s", "t", "v", "x">>

\* String.prototype.toLowerCase, one character.
LowerChar(c) ==
  IF \E i \in 1..Len(UpperChars) : UpperChars[i] = c
  THEN LowerChars[CHOOSE i \in 1..Len(UpperChars) : UpperChars[i] = c]
  ELSE c

ToLowerCase(s) == [i \in 1..Len(s) |-> LowerChar(s[i])]

\* The characters \s matches.
IsSpace(c) == c \in {" ", "\t", "\n", "\r"}

\* The length of the match of /^\s*/.
LeadingSpaces(s) ==
  IF \A i \in 1..Len(s) : IsSpace(s[i])
  THEN Len(s)
  ELSE (CHOOSE i \in 1..Len(s) : ~IsSpace(s[i]) /\ \A j \in 1..(i - 1) : IsSpace(s[j])) - 1

\* String.prototype.trim.
Trim(s) ==
  LET keep == {i \in 1..Len(s) : ~IsSpace(s[i])}
  IN IF keep = {} THEN <<>>
     ELSE LET lo == CHOOSE i \in keep : \A j \in keep : i <= j
              hi == CHOOSE i \in keep : \A j \in keep : j <= i
          IN SubSeq(s, lo, hi)

\* s.replace(/[\\/]+$/, '').
RECURSIVE StripTrailingSeparators(_)
StripTrailingSeparators(s) ==
  IF s # <<>> /\ s[Len(s)] \in {"/", "\\"}
  THEN StripTrailingSeparators(SubSeq(s, 1, Len(s) - 1))
  ELSE s

\* s.split(sep) for a one-character separator: never empty.
RECURSIVE Split(_, _)
Split(s, sep) ==
  IF \A i \in 1..Len(s) : s[i] # sep
  THEN <<s>>
  ELSE LET p == CHOOSE i \in 1..Len(s) : s[i] = sep /\ \A j \in 1..(i - 1) : s[j] # sep
       IN <<SubSeq(s, 1, p - 1)>> \o Split(SubSeq(s, p + 1, Len(s)), sep)

\* parts.join(sep).
RECURSIVE Join(_, _)
Join(parts, sep) ==
  IF parts = <<>> THEN <<>>
  ELSE IF Len(parts) = 1 THEN parts[1]
  ELSE parts[1] \o sep \o Join(Tail(parts), sep)

\* array.pop() as a value: the last element.
Pop(parts) == parts[Len(parts)]

Includes(s, c) == \E i \in 1..Len(s) : s[i] = c

EndsWith(s, suffix) ==
  Len(s) >= Len(suffix) /\ SubSeq(s, Len(s) - Len(suffix) + 1, Len(s)) = suffix

StartsWith(s, prefix) ==
  Len(s) >= Len(prefix) /\ SubSeq(s, 1, Len(prefix)) = prefix

\* iconName.replace(/_/g, '-').
UnderscoresToHyphens(s) == [i \in 1..Len(s) |-> IF s[i] = "_" THEN "-" ELSE s[i]]

\* record[key] on a Record<string, string>: undefined when the key is absent.
Lookup(record, key) == IF key \in DOMAIN record THEN record[key] ELSE UNDEFINED

\* customIcons[key] on the override record.
CustomLookup(customIcons, key) == Lookup(customIcons[2], key)

\* ------------------------------------------------------- literal strings

MaterialPrefix ==
  <<"i", "-", "m", "a", "t", "e", "r", "i", "a", "l", "-", "i", "c", "o", "n", "-",
    "t", "h", "e", "m", "e", ":">>
PluginPrefix ==
  <<"i", "-", "s", "t", "a", "r", "l", "i", "g", "h", "t", "-", "p", "l", "u", "g",
    "i", "n", "-", "i", "c", "o", "n", "s", ":">>
DocumentClass == MaterialPrefix \o <<"d", "o", "c", "u", "m", "e", "n", "t">>
SvelteJsClass == PluginPrefix \o <<"s", "v", "e", "l", "t", "e", "-", "j", "s">>
SvelteTsClass == PluginPrefix \o <<"s", "v", "e", "l", "t", "e", "-", "t", "s">>
FolderClass == PluginPrefix \o <<"f", "o", "l", "d", "e", "r">>
FolderOpenClass == PluginPrefix \o <<"f", "o", "l", "d", "e", "r", "-", "o", "p", "e", "n">>
SvelteJsSuffix == <<".", "s", "v", "e", "l", "t", "e", ".", "j", "s">>
SvelteTsSuffix == <<".", "s", "v", "e", "l", "t", "e", ".", "t", "s">>
FolderKeyPrefix == <<"f", "o", "l", "d", "e", "r", ":">>
FolderOpenKeyPrefix == <<"f", "o", "l", "d", "e", "r", "-", "o", "p", "e", "n", ":">>

\* ------------------------------------------------------------ program state

VARIABLES
  customFileIconsMap,   \* material-icons: let customFileIconsMap
  spiCustomFileIcons,   \* globalThis.__spiCustomFileIcons
  cachedData,           \* material-icons: let cachedData
  call,                 \* the last resolver call: its arguments and what it resolved to
  callers,              \* the getMaterialIconsData() calls in flight: position and locals
  versionFile,          \* .starlight-icons/version.txt
  languageMapFile,      \* .starlight-icons/language-map.json
  materialIconsFile,    \* .starlight-icons/material-icons.json
  remoteVersion,        \* the version the remote source serves
  assignments,          \* how often `cachedData = data` has run (history)
  treeBody,             \* the text between <FileTree> and </FileTree> being scanned
  treeLookups,          \* the resolver calls the scan of treeBody made, in order
  site,                 \* which content, configuration and options are on disk
  run,                  \* the generateSafelist() run: position and locals
  prevRun,              \* the run before it, as it ended (history)
  safelistFile,         \* .starlight-icons/safelist.json
  cacheDir              \* whether the directory .starlight-icons exists

resolverVars == <<customFileIconsMap, spiCustomFileIcons, call>>
storeVars ==
  <<callers, versionFile, languageMapFile, materialIconsFile, remoteVersion, assignments>>
treeVars == <<treeBody, treeLookups>>
safelistVars == <<site, run, prevRun, safelistFile, cacheDir>>
outsideResolver == <<storeVars, treeVars, safelistVars>>
outsideStore == <<resolverVars, treeVars, safelistVars>>
outsideTree == <<resolverVars, cachedData, storeVars, safelistVars>>
outsideSafelist == <<call, callers, assignments, treeVars>>

\* ------------------------------------------------------- bounded input data

\* Icon names served by the remote tables (with the underscore replace() rewrites).
IconN == <<"n", "_", "f">>
IconL == <<"l", "_", "x">>
IconS == <<"s", "_", "x">>
IconM == <<"m", "_", "x">>
IconD == <<"d", "_", "f">>
IconG == <<"g", "_", "l">>
IconF == <<"f", "_", "c">>
IconO == <<"f", "_", "o">>
FileIconNames == {IconN, IconL, IconS, IconM, IconD, IconG}
FolderIconNames == {IconF, IconO}

\* A fetched MaterialIconsData whose Icon Definition Table holds `defs`.
MkData(defs) ==
  <<"data",
    [languageMap |-> [fileExtensions |-> (<<"a">> :> IconM)],
     materialIcons |->
       [iconDefinitions |-> defs,
        fileExtensions |-> (<<"a", ".", "a">> :> IconL) @@ (<<"a">> :> IconS),
        fileNames |-> (<<"a", ".", "a", ".", "a">> :> IconN) @@ (<<"a", ".", "a">> :> IconN)
                      @@ (<<".", "a", ".", "a", ".", "a">> :> IconD) @@ (<<".", "a">> :> IconD),
        folderNames |-> (<<"a">> :> IconF),
        folderNamesExpanded |-> (<<"a">> :> IconO),
        languageIds |-> (<<"a">> :> IconG)]]>>

\* What the remote source may serve.
DataSet ==
  {MkData(d) : d \in SUBSET FileIconNames}
    \cup {MkData(FileIconNames \cup f) : f \in (SUBSET FolderIconNames) \ {{}}}

\* Override values: UnoCSS classes, and the empty string the schema also admits.
ClassX == <<"i", "-", "c", ":", "x">>
ClassY == <<"i", "-", "c", ":", "y">>
ClassZ == <<"i", "-", "c", ":", "z">>
ClassFC == <<"i", "-", "c", ":", "f">>
ClassFO == <<"i", "-", "c", ":", "o">>
ClassFA == <<"i", "-", "c", ":", "u">>

\* A Record<string, string> as a value, beside null and undefined.
Rec(f) == <<"record", f>>

\* The customFileIcons option: Record<string, string>.
OverrideMaps ==
  { Rec(<<>>),
    Rec(<<"a">> :> ClassX),
    Rec((<<"a", ".", "a">> :> ClassY) @@ (<<"a">> :> ClassX)),
    Rec((<<"a", ".", "a", ".", "a">> :> ClassZ) @@ (<<"a", ".", "a">> :> <<>>)
        @@ (<<"a">> :> ClassX)
        @@ ((FolderKeyPrefix \o <<"a">>) :> ClassFC)
        @@ ((FolderOpenKeyPrefix \o <<"a">>) :> ClassFO)
        @@ ((FolderKeyPrefix \o <<"A">>) :> ClassFA)) }

MaxNameLen == 2
NameAlphabet == {"a", "A", ".", "/", " "}

RECURSIVE SeqsUpTo(_, _)
SeqsUpTo(S, n) ==
  IF n = 0 THEN {<<>>}
  ELSE LET shorter == SeqsUpTo(S, n - 1)
       IN shorter \cup {Append(s, c) : s \in {t \in shorter : Len(t) = n - 1}, c \in S}

\* Longer names that reach the compound-extension and two-dot cases.
ExtraNames ==
  { <<"a", ".", "a", ".", "a">>, <<"A", ".", "a", ".", "A">>, <<".", "a", ".", "a">>,
    <<"a", ".", "a">>, <<"a", ".", "A">>, <<"a", "/", "a", ".", "a">>, <<"a", ".", "a", " ">>,
    <<"a", ".", "a", "/">>, <<"a", "/", "/">>, <<" ", "a", " ">>,
    <<"x">> \o SvelteJsSuffix, <<"x">> \o SvelteTsSuffix,
    <<"X", ".", "S", "V", "E", "L", "T", "E", ".", "J", "S">>,
    <<"x">> \o SvelteJsSuffix \o <<" ">> }

Names == SeqsUpTo(NameAlphabet, MaxNameLen) \cup ExtraNames
FileNames == Names \cup {UNDEFINED}
Languages == {UNDEFINED, <<>>, <<"a">>, <<"A">>, <<"x">>}

NoCall == [op |-> "none"]

\* ------------------------------------------------------------ material-icons

\* map ?? null
OrNull(map) == IF map = UNDEFINED \/ map = NULL THEN NULL ELSE map

\* setCustomFileIcons(map).
SetCustomFileIcons(map) ==
  /\ call = NoCall
  /\ customFileIconsMap' = OrNull(map)
  /\ spiCustomFileIcons' = customFileIconsMap'
  /\ UNCHANGED <<cachedData, call, outsideResolver>>

\* getCustomFileIcons().
GetCustomFileIcons ==
  IF customFileIconsMap # NULL /\ customFileIconsMap # UNDEFINED THEN customFileIconsMap
  ELSE IF spiCustomFileIcons # NULL /\ spiCustomFileIcons # UNDEFINED THEN spiCustomFileIcons
  ELSE NULL

\* fileName.includes('/') ? fileName.split('/').pop() : fileName
JustFileName(fileName) ==
  IF Includes(fileName, "/") THEN Pop(Split(fileName, "/")) ELSE fileName

\* lowerFileName.split('.').slice(1).join('.')
LongExtension(lowerFileName) == Join(Tail(Split(lowerFileName, ".")), <<".">>)

\* lowerFileName.split('.').pop() || ''
ShortExtension(lowerFileName) == Pop(Split(lowerFileName, "."))

\* The for loop over [lowerFileName, longExtension, shortExtension]: the first
\* key that is truthy and whose override is truthy; UNDEFINED when the loop ends.
RECURSIVE FirstCustomIcon(_, _)
FirstCustomIcon(keys, customIcons) ==
  IF keys = <<>> THEN UNDEFINED
  ELSE IF Truthy(Head(keys)) /\ Truthy(CustomLookup(customIcons, Head(keys)))
  THEN CustomLookup(customIcons, Head(keys))
  ELSE FirstCustomIcon(Tail(keys), customIcons)

\* The override block probing the short extension before the long extension
\* and the file name.
CustomFileIconShortFirst(fileName, customIcons) ==
  IF Truthy(fileName) /\ customIcons # NULL
  THEN LET lowerFileName == ToLowerCase(JustFileName(fileName))
       IN FirstCustomIcon(<<ShortExtension(lowerFileName), LongExtension(lowerFileName),
                            lowerFileName>>, customIcons)
  ELSE UNDEFINED

\* resolveIcon, the custom-override block: the class returned, or UNDEFINED
\* when the block falls through.
CustomFileIcon(fileName, customIcons) ==
  IF Truthy(fileName) /\ customIcons # NULL
  THEN LET lowerFileName == ToLowerCase(JustFileName(fileName))
       IN FirstCustomIcon(<<lowerFileName, LongExtension(lowerFileName),
                            ShortExtension(lowerFileName)>>, customIcons)
  ELSE UNDEFINED

\* `i-material-icon-theme:${iconName.replace(/_/g, '-')}`
MaterialClass(iconName) == MaterialPrefix \o UnderscoresToHyphens(iconName)

\* getIconClass(pairs) inside resolveIcon.
RECURSIVE GetIconClass(_, _)
GetIconClass(pairs, materialIcons) ==
  IF pairs = <<>> THEN NULL
  ELSE LET iconName == Lookup(Head(pairs).lookup, Head(pairs).key)
       IN IF Truthy(iconName) /\ iconName \in materialIcons.iconDefinitions
          THEN MaterialClass(iconName)
          ELSE GetIconClass(Tail(pairs), materialIcons)

\* The language-id probe ending in null where the code falls back to document.
LanguageIconOrNull(language, materialIcons) ==
  IF Truthy(language) /\ Truthy(Lookup(materialIcons.languageIds, language))
     /\ Lookup(materialIcons.languageIds, language) \in materialIcons.iconDefinitions
  THEN MaterialClass(Lookup(materialIcons.languageIds, language))
  ELSE NULL

\* resolveIcon after the file-name block: the language-id probe and the fallback.
LanguageIcon(language, materialIcons) ==
  IF Truthy(language) /\ Truthy(Lookup(materialIcons.languageIds, language))
     /\ Lookup(materialIcons.languageIds, language) \in materialIcons.iconDefinitions
  THEN MaterialClass(Lookup(materialIcons.languageIds, language))
  ELSE DocumentClass

\* The file-name block probing the Language-Extension Map before the
\* File-Extension Map.
FileIconLanguageMapFirst(fileName, materialIcons, languageMap) ==
  LET lowerFileName == ToLowerCase(JustFileName(fileName))
      longExtension == LongExtension(lowerFileName)
      shortExtension == ShortExtension(lowerFileName)
      pairs == << [key |-> lowerFileName, lookup |-> materialIcons.fileNames],
                  [key |-> shortExtension, lookup |-> languageMap.fileExtensions],
                  [key |-> longExtension, lookup |-> materialIcons.fileExtensions],
                  [key |-> shortExtension, lookup |-> materialIcons.fileExtensions] >>
      iconClass == GetIconClass(pairs, materialIcons)
      dotIconName == Lookup(materialIcons.fileNames, <<".">> \o lowerFileName)
  IN IF Truthy(iconClass) THEN iconClass
     ELSE IF ~StartsWith(lowerFileName, <<".">>) /\ Truthy(dotIconName)
             /\ dotIconName \in materialIcons.iconDefinitions
     THEN MaterialClass(dotIconName)
     ELSE NULL

\* resolveIcon, the file-name block: the class returned, or NULL when it falls
\* through to the language-id probe.
FileIcon(fileName, materialIcons, languageMap) ==
  LET lowerFileName == ToLowerCase(JustFileName(fileName))
      longExtension == LongExtension(lowerFileName)
      shortExtension == ShortExtension(lowerFileName)
      pairs == << [key |-> lowerFileName, lookup |-> materialIcons.fileNames],
                  [key |-> longExtension, lookup |-> materialIcons.fileExtensions],
                  [key |-> shortExtension, lookup |-> materialIcons.fileExtensions],
                  [key |-> shortExtension, lookup |-> languageMap.fileExtensions] >>
      iconClass == GetIconClass(pairs, materialIcons)
      dotIconName == Lookup(materialIcons.fileNames, <<".">> \o lowerFileName)
  IN IF Truthy(iconClass) THEN iconClass
     ELSE IF ~StartsWith(lowerFileName, <<".">>) /\ Truthy(dotIconName)
             /\ dotIconName \in materialIcons.iconDefinitions
     THEN MaterialClass(dotIconName)
     ELSE NULL

\* resolveIcon from `const data = await getMaterialIconsData()` on; data is
\* what that call returned.
ResolveIconWithData(fileName, language, data) ==
  IF data = UNDEFINED THEN NULL
  ELSE IF ~Truthy(fileName) /\ ~Truthy(language) THEN NULL
  ELSE IF fileName # UNDEFINED /\ EndsWith(fileName, SvelteJsSuffix) THEN SvelteJsClass
  ELSE IF fileName # UNDEFINED /\ EndsWith(fileName, SvelteTsSuffix) THEN SvelteTsClass
  ELSE LET fromFile == IF Truthy(fileName)
                       THEN FileIcon(fileName, data[2].materialIcons, data[2].languageMap)
                       ELSE NULL
       IN IF fromFile # NULL THEN fromFile
          ELSE LanguageIcon(language, data[2].materialIcons)

\* resolveIcon(fileName, language)() as a function of what it reads.
ResolveIconResult(fileName, language, customIcons, data) ==
  IF CustomFileIcon(fileName, customIcons) # UNDEFINED
  THEN CustomFileIcon(fileName, customIcons)
  ELSE ResolveIconWithData(fileName, language, data)

\* resolveFolderIcon: folderName.trim().replace(/[\\/]+$/, '').toLowerCase()
LowerFolderName(folderName) == ToLowerCase(StripTrailingSeparators(Trim(folderName)))

\* resolveFolderIcon, the custom-override block.
CustomFolderIcon(folderName, isOpen, customIcons) ==
  LET key == (IF isOpen THEN FolderOpenKeyPrefix ELSE FolderKeyPrefix)
               \o LowerFolderName(folderName)
  IN IF customIcons # NULL /\ Truthy(CustomLookup(customIcons, key))
     THEN CustomLookup(customIcons, key)
     ELSE UNDEFINED

\* resolveFolderIcon from `const data = await getMaterialIconsData()` on.
ResolveFolderIconWithData(folderName, isOpen, data) ==
  IF data = UNDEFINED THEN UNDEFINED
  ELSE LET materialIcons == data[2].materialIcons
           iconName == IF isOpen
                       THEN Lookup(materialIcons.folderNamesExpanded, LowerFolderName(folderName))
                       ELSE Lookup(materialIcons.folderNames, LowerFolderName(folderName))
       IN IF Truthy(iconName) /\ iconName \in materialIcons.iconDefinitions
          THEN MaterialClass(iconName)
          ELSE IF isOpen THEN FolderOpenClass ELSE FolderClass

\* resolveFolderIcon(folderName, isOpen)() as a function of what it reads.
ResolveFolderIconResult(folderName, isOpen, customIcons, data) ==
  IF CustomFolderIcon(folderName, isOpen, customIcons) # UNDEFINED
  THEN CustomFolderIcon(folderName, isOpen, customIcons)
  ELSE ResolveFolderIconWithData(folderName, isOpen, data)

\* getMaterialIconsData() run to completion with no other caller in flight:
\* the cached data when there is some, else the fetched (or cache-loaded)
\* tables, or undefined when the try block threw.
DataOutcomes == IF cachedData # NULL THEN {cachedData} ELSE DataSet \cup {UNDEFINED}

\* cachedData after getMaterialIconsData() returned `data`.
CacheAfter(data) == IF data = UNDEFINED THEN cachedData ELSE data

\* resolveIcon(fileName, language)().
ResolveIcon(fileName, language) ==
  /\ call = NoCall
  /\ IF CustomFileIcon(fileName, GetCustomFileIcons) # UNDEFINED
     THEN /\ call' = [op |-> "resolveIcon", fileName |-> fileName, language |-> language,
                      data |-> NULL,
                      result |-> CustomFileIcon(fileName, GetCustomFileIcons)]
          /\ UNCHANGED cachedData
     ELSE \E data \in DataOutcomes :
            /\ call' = [op |-> "resolveIcon", fileName |-> fileName, language |-> language,
                        data |-> data,
                        result |-> ResolveIconWithData(fileName, language, data)]
            /\ cachedData' = CacheAfter(data)
  /\ UNCHANGED <<customFileIconsMap, spiCustomFileIcons, outsideResolver>>

\* resolveFolderIcon(folderName, isOpen)().
ResolveFolderIcon(folderName, isOpen) ==
  /\ call = NoCall
  /\ IF CustomFolderIcon(folderName, isOpen, GetCustomFileIcons) # UNDEFINED
     THEN /\ call' = [op |-> "resolveFolderIcon", folderName |-> folderName, isOpen |-> isOpen,
                      data |-> NULL,
                      result |-> CustomFolderIcon(folderName, isOpen, GetCustomFileIcons)]
          /\ UNCHANGED cachedData
     ELSE \E data \in DataOutcomes :
            /\ call' = [op |-> "resolveFolderIcon", folderName |-> folderName, isOpen |-> isOpen,
                        data |-> data,
                        result |-> ResolveFolderIconWithData(folderName, isOpen, data)]
            /\ cachedData' = CacheAfter(data)
  /\ UNCHANGED <<customFileIconsMap, spiCustomFileIcons, outsideResolver>>

\* ---------------------------------------------------- the resolver's runs

\* The caller has taken the settled promise's value: the next call can be made.
Settled ==
  /\ call # NoCall
  /\ call' = NoCall
  /\ UNCHANGED <<customFileIconsMap, spiCustomFileIcons, cachedData, outsideResolver>>

\* The parts of the state a specification leaves out: nothing on disk, no call
\* in flight, no scan, no run.
StoreUnused ==
  /\ callers = <<>>
  /\ versionFile = <<"missing">>
  /\ languageMapFile = <<"missing">>
  /\ materialIconsFile = <<"missing">>
  /\ remoteVersion = 1
  /\ assignments = 0

ResolverUnused ==
  /\ customFileIconsMap = NULL
  /\ spiCustomFileIcons = NULL
  /\ call = NoCall

TreeUnused == treeBody = <<>> /\ treeLookups = <<>>

SafelistUnused ==
  /\ site = 0
  /\ run = [pc |-> "idle"]
  /\ prevRun = [pc |-> "none"]
  /\ safelistFile = <<"missing">>
  /\ cacheDir = FALSE

InitResolve ==
  /\ customFileIconsMap = NULL
  /\ spiCustomFileIcons = NULL
  /\ cachedData = NULL
  /\ call = NoCall
  /\ StoreUnused /\ TreeUnused /\ SafelistUnused

NextResolve ==
  \/ \E map \in OverrideMaps : SetCustomFileIcons(map)
  \/ \E fileName \in FileNames, language \in Languages : ResolveIcon(fileName, language)
  \/ \E folderName \in Names, isOpen \in BOOLEAN : ResolveFolderIcon(folderName, isOpen)
  \/ Settled

vars == <<resolverVars, cachedData, storeVars, treeVars, safelistVars>>

SpecResolve == InitResolve /\ [][NextResolve]_vars

\* ------------------------------------------------ the resolver's properties

\* The claims' own vocabulary, stated on the names and not through the code's
\* split/slice/pop pipeline.
AfterLast(s, c) ==
  IF Includes(s, c)
  THEN SubSeq(s, (CHOOSE i \in 1..Len(s) : s[i] = c /\ \A j \in (i + 1)..Len(s) : s[j] # c) + 1,
              Len(s))
  ELSE s
AfterFirst(s, c) ==
  IF Includes(s, c)
  THEN SubSeq(s, (CHOOSE i \in 1..Len(s) : s[i] = c /\ \A j \in 1..(i - 1) : s[j] # c) + 1,
              Len(s))
  ELSE <<>>
LowerBaseName(fileName) == ToLowerCase(AfterLast(fileName, "/"))
\* The override keys of a file name, in the documented order.  The short
\* extension of a name without a dot is the whole name, as the code has it.
OverrideKeys(fileName) ==
  << LowerBaseName(fileName), AfterFirst(LowerBaseName(fileName), "."),
     AfterLast(LowerBaseName(fileName), ".") >>
\* A name as the documentation normalises it before lookup.
NormalName(name) ==
  LET t == Trim(name)
      last == {i \in 1..Len(t) : t[i] \notin {"/", "\\"}}
  IN ToLowerCase(SubSeq(t, 1, IF last = {} THEN 0
                              ELSE CHOOSE i \in last : \A j \in last : j <= i))
IsFileCall == call.op = "resolveIcon"
IsFolderCall == call.op = "resolveFolderIcon"
HasOverrides == GetCustomFileIcons # NULL
Overrides == GetCustomFileIcons[2]
FolderKey(isOpen, name) == (IF isOpen THEN FolderOpenKeyPrefix ELSE FolderKeyPrefix) \o name
DataAvailable == IsFileCall /\ call.data # NULL /\ call.data # UNDEFINED

ProbedIconNames(fileName, language, data) ==
  LET mi == data[2].materialIcons
      base == LowerBaseName(fileName)
      fileProbes ==
        IF Truthy(fileName)
        THEN << Lookup(mi.fileNames, base),
                Lookup(mi.fileExtensions, AfterFirst(base, ".")),
                Lookup(mi.fileExtensions, AfterLast(base, ".")),
                Lookup(data[2].languageMap.fileExtensions, AfterLast(base, ".")),
                IF base # <<>> /\ base[1] = "." THEN UNDEFINED
                ELSE Lookup(mi.fileNames, <<".">> \o base) >>
        ELSE <<>>
  IN fileProbes \o << IF Truthy(language) THEN Lookup(mi.languageIds, language) ELSE UNDEFINED >>
DefinedProbes(fileName, language, data) ==
  {i \in 1..Len(ProbedIconNames(fileName, language, data)) :
     ProbedIconNames(fileName, language, data)[i] \in data[2].materialIcons.iconDefinitions}
OverrideMatches(fileName) ==
  /\ Truthy(fileName) /\ HasOverrides
  /\ \E i \in 1..3 : OverrideKeys(fileName)[i] \in DOMAIN Overrides
                     /\ Overrides[OverrideKeys(fileName)[i]] # <<>>
CompoundExtension(fileName) ==
  /\ fileName # UNDEFINED
  /\ \/ Len(fileName) >= 10 /\ SubSeq(fileName, Len(fileName) - 9, Len(fileName)) = SvelteJsSuffix
     \/ Len(fileName) >= 10 /\ SubSeq(fileName, Len(fileName) - 9, Len(fileName)) = SvelteTsSuffix
Supplied(v) == v # UNDEFINED /\ v # <<>>

\* C2 as stated: null when neither a file name nor a language is supplied; the
\* document fallback, never null, undefined or empty, for every other input
\* that no override and no table resolves.
C2_NullOrDocument ==
  IsFileCall =>
    /\ (~Supplied(call.fileName) /\ ~Supplied(call.language)) => call.result = NULL
    /\ ((Supplied(call.fileName) \/ Supplied(call.language))
        /\ ~OverrideMatches(call.fileName)
        /\ (call.data = UNDEFINED \/ DefinedProbes(call.fileName, call.language, call.data) = {}))
         => call.result = DocumentClass

\* C2 (amended): null when neither a file name nor a language is supplied; for
\* every other input that no override resolves: null while the icon data is
\* unavailable, and with the data available the document fallback whenever no
\* special-cased compound extension and no table resolves it.
C2_NullOrDocumentWithData ==
  IsFileCall =>
    /\ (~Supplied(call.fileName) /\ ~Supplied(call.language)) => call.result = NULL
    /\ ((Supplied(call.fileName) \/ Supplied(call.language)) /\ ~OverrideMatches(call.fileName))
         => /\ call.data = UNDEFINED => call.result = NULL
            /\ (call.data # UNDEFINED /\ ~CompoundExtension(call.fileName)
                /\ DefinedProbes(call.fileName, call.language, call.data) = {})
                 => call.result = DocumentClass

\* C2's case: a file name no table resolves, with the data available.
C2_Witness ==
  /\ DataAvailable /\ call.fileName = <<"a", ".", "a">> /\ call.language = <<"x">>
  /\ ~OverrideMatches(call.fileName)
  /\ call.data[2].materialIcons.iconDefinitions = {IconG, IconD}
  /\ call.result = DocumentClass

\* C6: resolveIcon and resolveFolderIcon return the same class for a name as
\* for every variant of it that differs only in letter case, surrounding
\* whitespace or trailing path separators, language ids included.
C6_CaseAndTrimInsensitive ==
  cachedData # NULL =>
    /\ (IsFileCall /\ Supplied(call.fileName) /\ NormalName(call.fileName) # <<>>) =>
         \A v \in Names :
           NormalName(v) = NormalName(call.fileName) =>
             ResolveIconResult(v, call.language, GetCustomFileIcons, cachedData) = call.result
    /\ (IsFileCall /\ Supplied(call.language)) =>
         \A l \in Languages \ {UNDEFINED} :
           NormalName(l) = NormalName(call.language) =>
             ResolveIconResult(call.fileName, l, GetCustomFileIcons, cachedData) = call.result
    /\ IsFolderCall =>
         \A v \in Names :
           NormalName(v) = NormalName(call.folderName) =>
             ResolveFolderIconResult(v, call.isOpen, GetCustomFileIcons, cachedData) = call.result

\* C7: with data available and neither an override nor a compound extension
\* matching, the result is the class of the first probe, in the documented
\* order, whose icon name is in the Icon Definition Table (underscores as
\* hyphens); probes whose icon name is not defined are skipped.  (With no
\* probe left the result is the document fallback.)
C7_ProbeOrder ==
  (DataAvailable /\ (Supplied(call.fileName) \/ Supplied(call.language))
   /\ ~OverrideMatches(call.fileName) /\ ~CompoundExtension(call.fileName)) =>
    LET names == ProbedIconNames(call.fileName, call.language, call.data)
        hits == DefinedProbes(call.fileName, call.language, call.data)
        first == CHOOSE i \in hits : \A j \in hits : i <= j
    IN IF hits = {} THEN call.result = DocumentClass
       ELSE call.result = MaterialPrefix
              \o [k \in 1..Len(names[first]) |-> IF names[first][k] = "_" THEN "-" ELSE names[first][k]]

\* C7's case: "a.a.a" with language "a", the file-name and long-extension icons
\* undefined: the short extension in the File-Extension Map wins over the
\* Language-Extension Map, the dot-prefixed name and the language id.
C7_Witness ==
  /\ DataAvailable /\ call.fileName = <<"a", ".", "a", ".", "a">> /\ call.language = <<"a">>
  /\ ~OverrideMatches(call.fileName)
  /\ call.data[2].materialIcons.iconDefinitions = {IconS, IconM, IconD, IconG}
  /\ call.result = MaterialPrefix \o <<"s", "-", "x">>

\* ------------------------------------------------- the icon data store

NumCallers == 2
MaxVersion == 2
Callers == 1..NumCallers

NONE == <<"none">>
MISSING == <<"missing">>
CORRUPT == <<"corrupt">>
\* The text of version.txt for version n, and the table a URL serves for it.
Ver(n) == <<"version", n>>
Tab(n) == <<"table", n>>
IsTable(v) == Len(v) = 2 /\ v[1] = "table"

\* { languageMap, materialIcons } as getMaterialIconsData assembles it.
StoreData(languageMap, materialIcons) ==
  <<"data", [languageMap |-> languageMap[2], materialIcons |-> materialIcons[2]]>>

CacheFiles == {"languageMap", "materialIcons", "version"}

Idle ==
  [pc |-> "idle", currentVersion |-> NONE, cachedVersion |-> NONE, languageMap |-> NONE,
   materialIcons |-> NONE, pending |-> {}, result |-> NONE, fetched |-> NONE, hit |-> FALSE]

\* The call is over: its locals are gone, what it returned stays.
Done(c, result) ==
  [Idle EXCEPT !.pc = "done", !.result = result, !.fetched = c.fetched, !.hit = c.hit]

diskVars == <<versionFile, languageMapFile, materialIconsFile>>

\* `if (cachedData)`: the in-memory cache is taken.
CacheNeverHit == FALSE
CacheHit == cachedData # NULL

\* getMaterialIconsData(): entry, up to the first await.
Call(p) ==
  /\ callers[p].pc = "idle"
  /\ IF CacheHit
     THEN callers' = [callers EXCEPT ![p] = Done([Idle EXCEPT !.hit = TRUE], cachedData)]
     ELSE callers' = [callers EXCEPT ![p].pc = "versions"]
  /\ UNCHANGED <<cachedData, diskVars, remoteVersion, assignments, outsideStore>>

\* After Promise.all([fetchText, getCachedVersion]): `currentVersion === cachedVersion`.
AfterVersions(c) ==
  IF c.currentVersion = NONE \/ c.cachedVersion = NONE THEN c
  ELSE IF c.currentVersion = c.cachedVersion THEN [c EXCEPT !.pc = "cache"]
  ELSE [c EXCEPT !.pc = "fetch"]

\* The catch block: the call resolves to undefined.
Caught(c) == Done(c, UNDEFINED)

\* fetchText(VERSION_URL).then(v => v.trim()) settles.
FetchVersion(p) ==
  /\ callers[p].pc = "versions" /\ callers[p].currentVersion = NONE
  /\ \/ callers' = [callers EXCEPT
                      ![p] = AfterVersions([@ EXCEPT !.currentVersion = Ver(remoteVersion)])]
     \/ callers' = [callers EXCEPT ![p] = Caught(@)]
  /\ UNCHANGED <<cachedData, diskVars, remoteVersion, assignments, outsideStore>>

\* getCachedVersion() settles: the file's text, or null when the read throws.
GetCachedVersion(p) ==
  /\ callers[p].pc = "versions" /\ callers[p].cachedVersion = NONE
  /\ callers' = [callers EXCEPT
                   ![p] = AfterVersions([@ EXCEPT !.cachedVersion =
                                           IF versionFile = MISSING THEN NULL ELSE versionFile])]
  /\ UNCHANGED <<cachedData, diskVars, remoteVersion, assignments, outsideStore>>

\* `cachedData = data; return data` once both tables of `c` are there.
Populate(p, c) ==
  LET data == StoreData(c.languageMap, c.materialIcons)
  IN /\ cachedData' = data
     /\ assignments' = assignments + 1
     /\ callers' = [callers EXCEPT ![p] = Done(c, data)]

\* getCachedData(): one of its two reads settles.  A missing or unparsable
\* file makes it return null, and the call goes on to the remote fetch.
ReadCached(p, file) ==
  /\ callers[p].pc = "cache"
  /\ LET c == callers[p]
         text == IF file = "languageMap" THEN languageMapFile ELSE materialIconsFile
         read == IF file = "languageMap" THEN [c EXCEPT !.languageMap = text]
                 ELSE [c EXCEPT !.materialIcons = text]
     IN /\ (IF file = "languageMap" THEN c.languageMap ELSE c.materialIcons) = NONE
        /\ IF ~IsTable(text)
           THEN /\ callers' = [callers EXCEPT ![p] =
                                 [c EXCEPT !.pc = "fetch", !.languageMap = NONE,
                                           !.materialIcons = NONE]]
                /\ UNCHANGED <<cachedData, assignments>>
           ELSE IF read.languageMap # NONE /\ read.materialIcons # NONE
           THEN Populate(p, read)
           ELSE /\ callers' = [callers EXCEPT ![p] = read]
                /\ UNCHANGED <<cachedData, assignments>>
  /\ UNCHANGED <<diskVars, remoteVersion, outsideStore>>

\* One of the two fetchJson calls settles; with both tables fetched the three
\* cache writes (setCachedData's two, setCachedVersion's one) are issued.
FetchJson(p, file) ==
  /\ callers[p].pc = "fetch"
  /\ LET c == callers[p]
         got == IF file = "languageMap" THEN [c EXCEPT !.languageMap = Tab(remoteVersion)]
                ELSE [c EXCEPT !.materialIcons = Tab(remoteVersion)]
     IN /\ (IF file = "languageMap" THEN c.languageMap ELSE c.materialIcons) = NONE
        /\ \/ callers' = [callers EXCEPT ![p] =
                            IF got.languageMap # NONE /\ got.materialIcons # NONE
                            THEN [got EXCEPT !.pc = "write", !.pending = CacheFiles,
                                             !.fetched = StoreData(got.languageMap,
                                                                   got.materialIcons)]
                            ELSE got]
           \/ callers' = [callers EXCEPT ![p] = Caught(c)]
  /\ UNCHANGED <<cachedData, diskVars, remoteVersion, assignments, outsideStore>>

\* What fs.writeFile puts into `file` for the call `c`.
Written(c, file) ==
  IF file = "languageMap" THEN c.languageMap
  ELSE IF file = "materialIcons" THEN c.materialIcons
  ELSE c.currentVersion

\* The disk after `file` became `text`.
SetFile(file, text) ==
  /\ languageMapFile' = (IF file = "languageMap" THEN text ELSE languageMapFile)
  /\ materialIconsFile' = (IF file = "materialIcons" THEN text ELSE materialIconsFile)
  /\ versionFile' = (IF file = "version" THEN text ELSE versionFile)

FileText(file) ==
  IF file = "languageMap" THEN languageMapFile
  ELSE IF file = "materialIcons" THEN materialIconsFile
  ELSE versionFile

\* One of the issued cache writes succeeds.  When it is the last and none
\* failed, the awaited Promise.all resolves: `cachedData = data; return data`.
WriteFile(p, file) ==
  /\ callers[p].pc = "write" /\ file \in callers[p].pending
  /\ SetFile(file, Written(callers[p], file))
  /\ LET c == [callers[p] EXCEPT !.pending = @ \ {file}]
     IN IF c.pending # {}
        THEN callers' = [callers EXCEPT ![p] = c] /\ UNCHANGED <<cachedData, assignments>>
        ELSE IF c.result = NONE
        THEN Populate(p, c)
        ELSE callers' = [callers EXCEPT ![p] = Done(c, c.result)]
             /\ UNCHANGED <<cachedData, assignments>>
  /\ UNCHANGED <<remoteVersion, outsideStore>>

\* One of the issued cache writes fails, leaving the file as it was or cut
\* short: Promise.all rejects, the catch block makes the call return undefined,
\* and the writes still in flight go on.
WriteFails(p, file) ==
  /\ callers[p].pc = "write" /\ file \in callers[p].pending
  /\ \E text \in {FileText(file), CORRUPT} : SetFile(file, text)
  /\ LET c == [callers[p] EXCEPT !.pending = @ \ {file}, !.result = UNDEFINED]
     IN callers' = [callers EXCEPT ![p] = IF c.pending = {} THEN Done(c, UNDEFINED) ELSE c]
  /\ UNCHANGED <<cachedData, remoteVersion, assignments, outsideStore>>

\* The caller took the result; it may call again.
Returned(p) ==
  /\ callers[p].pc = "done"
  /\ callers' = [callers EXCEPT ![p] = Idle]
  /\ UNCHANGED <<cachedData, diskVars, remoteVersion, assignments, outsideStore>>

\* A fresh process over a cache directory that is empty or was left complete
\* by an earlier process for some version up to the one now served.
InitStore ==
  /\ cachedData = NULL
  /\ callers = [p \in Callers |-> Idle]
  /\ remoteVersion \in 1..MaxVersion
  /\ \/ versionFile = MISSING /\ languageMapFile = MISSING /\ materialIconsFile = MISSING
     \/ \E v \in 1..remoteVersion :
          versionFile = Ver(v) /\ languageMapFile = Tab(v) /\ materialIconsFile = Tab(v)
  /\ assignments = 0
  /\ ResolverUnused /\ TreeUnused /\ SafelistUnused

NextStore ==
  \/ \E p \in Callers : Call(p)
  \/ \E p \in Callers : FetchVersion(p)
  \/ \E p \in Callers : GetCachedVersion(p)
  \/ \E p \in Callers, file \in {"languageMap", "materialIcons"} : ReadCached(p, file)
  \/ \E p \in Callers, file \in {"languageMap", "materialIcons"} : FetchJson(p, file)
  \/ \E p \in Callers, file \in CacheFiles : WriteFile(p, file)
  \/ \E p \in Callers, file \in CacheFiles : WriteFails(p, file)
  \/ \E p \in Callers : Returned(p)

SpecStore == InitStore /\ [][NextStore]_vars

\* ----------------------------------------------- the data store's properties

HasReturned(p) == callers[p].result # NONE
BothTables(v) ==
  /\ v # UNDEFINED /\ v # NULL /\ v[1] = "data"
  /\ DOMAIN v[2] = {"languageMap", "materialIcons"}
Quiescent == \A p \in Callers : callers[p].pc \in {"idle", "done"}

\* C5: getMaterialIconsData never fails with an error: whatever the fetches,
\* the cache reads and the cache writes do, it resolves to both tables or to
\* 'unavailable' (undefined), never to one table alone; and whenever the remote
\* fetch of both tables succeeded it returns the fetched data.
C5_BothTablesOrUnavailable ==
  \A p \in Callers :
    HasReturned(p) =>
      /\ callers[p].result = UNDEFINED \/ BothTables(callers[p].result)
      /\ callers[p].fetched # NONE => callers[p].result = callers[p].fetched

\* C9 as stated: under any interleaving, cachedData is populated by a single
\* assignment and never assigned again, and a call that starts after it is
\* populated returns that same data.
C9_AssignedOnce ==
  /\ assignments <= 1
  /\ \A p \in Callers : callers[p].hit => callers[p].result = cachedData

\* C9 (amended): under any interleaving, once populated the in-memory cache is
\* never emptied again, and every call that starts after it is populated
\* returns the data it holds at that moment in the same step, with no network
\* or disk access; the calls that started while it was empty each fetch and
\* each assign it.
C9_PopulatedCacheIsServed ==
  [][ /\ cachedData # NULL => cachedData' # NULL
      /\ \A p \in Callers :
           (cachedData # NULL /\ callers[p].pc = "idle" /\ callers'[p].pc # "idle")
             => /\ callers'[p].pc = "done"
                /\ callers'[p].result = cachedData
                /\ UNCHANGED <<cachedData, diskVars>> ]_vars

\* C9's case: two concurrent callers have each assigned cachedData, and a call
\* started afterwards was served from it.
C9_Witness ==
  /\ assignments = 2
  /\ \E p \in Callers : callers[p].pc = "done" /\ callers[p].hit
                        /\ callers[p].result = cachedData

\* C10: after any sequence of runs, failed cache writes included, whenever
\* version.txt holds V and both table files are readable, they hold the tables
\* fetched for V; so a run that finds the remote version equal to the cached
\* one never loads the tables of an older version.  Stated for the V a later
\* run compares equal, the version the remote serves, once every call is over.
C10_CacheMatchesVersion ==
  /\ Quiescent =>
       ((versionFile = Ver(remoteVersion) /\ IsTable(languageMapFile)
         /\ IsTable(materialIconsFile))
          => languageMapFile[2] = versionFile[2] /\ materialIconsFile[2] = versionFile[2])
  /\ \A p \in Callers :
       (callers[p].pc = "done" /\ BothTables(callers[p].result)
        /\ callers[p].fetched = NONE /\ ~callers[p].hit)
         => /\ callers[p].result[2].languageMap >= remoteVersion
            /\ callers[p].result[2].materialIcons >= remoteVersion

\* ------------------------------------------------------- safelist: FileTree

\* name.replace(/^<m>(.+)<m>$/, '$1') for an emphasis marker <m>.
Unwrap(name, marker) ==
  IF Len(name) >= 2 * Len(marker) + 1 /\ StartsWith(name, marker) /\ EndsWith(name, marker)
  THEN SubSeq(name, Len(marker) + 1, Len(name) - Len(marker))
  ELSE name

\* Characters a TLA+ string cannot hold, as one-element tokens: the grave
\* accent, and the three characters U+00E2 U+20AC U+00A6 of the second
\* ellipsis literal.
GraveAccent == "U+0060"
EllipsisLiteral == <<"U+00E2", "U+20AC", "U+00A6">>

\* input.replace(/<grave accent>/g, '').
RECURSIVE WithoutBackticks(_)
WithoutBackticks(input) ==
  IF input = <<>> THEN <<>>
  ELSE IF Head(input) = GraveAccent THEN WithoutBackticks(Tail(input))
  ELSE <<Head(input)>> \o WithoutBackticks(Tail(input))

\* normalizeFileTreeEntry(input).
NormalizeFileTreeEntry(input) ==
  Unwrap(Unwrap(Unwrap(Unwrap(Trim(WithoutBackticks(input)), <<"*", "*">>), <<"_", "_">>),
                <<"*">>), <<"_">>)

\* fileTreeContent.trim().split('\n').map(line => ({ indentation, content })).
TreeLines(fileTreeContent) ==
  LET raw == Split(Trim(fileTreeContent), "\n")
  IN [i \in 1..Len(raw) |-> [indentation |-> LeadingSpaces(raw[i]), content |-> Trim(raw[i])]]

\* isDirectory for line i of `lines`.
IsDirectory(lines, i, entryName) ==
  \/ EndsWith(entryName, <<"/">>)
  \/ i + 1 <= Len(lines) /\ lines[i + 1].indentation > lines[i].indentation

\* The entry name of a line, or <<>> when the loop skips the line.
EntryName(line) ==
  IF ~StartsWith(line.content, <<"-", " ">>) THEN <<>>
  ELSE LET rawEntry == Head(Split(SubSeq(line.content, 3, Len(line.content)), " "))
           entryName == NormalizeFileTreeEntry(rawEntry)
       IN IF entryName \in {<<".", ".", ".">>, EllipsisLiteral} THEN <<>> ELSE entryName

\* The body of the loop over the lines of one FileTree block: the icon lookups
\* it makes, in order.  A directory entry stands for the two folder lookups
\* (closed and open), a file entry for the one resolveIcon(entryName, undefined).
RECURSIVE LookupsFrom(_, _)
LookupsFrom(lines, i) ==
  IF i > Len(lines) THEN <<>>
  ELSE LET entryName == EntryName(lines[i])
       IN IF entryName = <<>> THEN LookupsFrom(lines, i + 1)
          ELSE IF IsDirectory(lines, i, entryName)
          THEN <<[kind |-> "folder", name |-> StripTrailingSeparators(Trim(entryName))]>>
                 \o LookupsFrom(lines, i + 1)
          ELSE <<[kind |-> "file", name |-> entryName]>> \o LookupsFrom(lines, i + 1)

\* The icon lookups generateSafelist makes for one <FileTree> match.
FileTreeLookups(fileTreeContent) ==
  IF fileTreeContent = <<>> THEN <<>> ELSE LookupsFrom(TreeLines(fileTreeContent), 1)

\* Bounded FileTree bodies: up to MaxTreeLines lines, each a list entry
\* indented by up to MaxIndent spaces or a blank line, after the line break
\* that follows the opening tag.
MaxTreeLines == 3
MaxIndent == 2
Spaces(n) == [i \in 1..n |-> " "]
TreeEntryNames == {<<"a">>, <<"a", "/">>}
TreeLineTexts ==
  {Spaces(n) \o <<"-", " ">> \o name : n \in 0..MaxIndent, name \in TreeEntryNames}
    \cup {<<>>}
RECURSIVE LineSeqs(_)
LineSeqs(n) ==
  IF n = 0 THEN {<<>>}
  ELSE LET shorter == LineSeqs(n - 1)
       IN shorter \cup {Append(ls, l) : ls \in {t \in shorter : Len(t) = n - 1},
                                        l \in TreeLineTexts}
TreeBodies ==
  {<<"\n">> \o Join(ls, <<"\n">>) \o <<"\n">> : ls \in LineSeqs(MaxTreeLines) \ {<<>>}}

\* content.matchAll(fileTreeRegex) yields the next <FileTree> block.
MatchFileTree ==
  /\ treeBody = NULL
  /\ treeBody' \in TreeBodies
  /\ UNCHANGED <<treeLookups, outsideTree>>

\* generateSafelist, the FileTree branch, on the matched block.
ScanFileTree ==
  /\ treeBody # NULL
  /\ treeLookups = <<>>
  /\ treeLookups' = <<"scanned", FileTreeLookups(treeBody)>>
  /\ UNCHANGED <<treeBody, outsideTree>>

InitTree ==
  /\ treeBody = NULL
  /\ treeLookups = <<>>
  /\ cachedData = NULL
  /\ ResolverUnused /\ StoreUnused /\ SafelistUnused

NextTree == MatchFileTree \/ ScanFileTree

SpecTree == InitTree /\ [][NextTree]_vars

\* The entries of a block as written: for each line of the source that is a
\* list entry with a name (not an ellipsis), its indentation in the source and
\* its name.
SourceEntries(body) ==
  LET raw == Split(body, "\n")
      isEntry(i) == EntryName([content |-> Trim(raw[i])]) # <<>>
      idx == {i \in 1..Len(raw) : isEntry(i)}
      nth(k) == CHOOSE i \in idx : Cardinality({j \in idx : j < i}) = k - 1
  IN [k \in 1..Cardinality(idx) |->
        [indentation |-> LeadingSpaces(raw[nth(k)]),
         name |-> EntryName([content |-> Trim(raw[nth(k)])])]]

\* C8: at every line position, the first line of the block included, an entry
\* whose name ends with a path separator is a directory; an entry followed by
\* a more-indented next non-skipped line is a directory; an entry whose
\* following line is indented the same or less in the source, or that has no
\* following line, is a file: one file-icon lookup, no folder-icon lookups.
C8_DirectoryDetection ==
  (treeLookups # <<>>) =>
    LET entries == SourceEntries(treeBody)
        made == treeLookups[2]
    IN /\ Len(made) = Len(entries)
       /\ \A k \in 1..Len(entries) :
            made[k].kind =
              (IF \/ EndsWith(entries[k].name, <<"/">>)
                  \/ k < Len(entries) /\ entries[k + 1].indentation > entries[k].indentation
               THEN "folder" ELSE "file")

\* --------------------------------------------------- safelist: serialization

\* The printable ASCII characters in code-unit order, from U+0020 on.
CodeUnits ==
  <<" ", "!", "\"", "#", "$", "%", "&", "'", "(", ")", "*", "+", ",", "-", ".", "/",
    "0", "1", "2", "3", "4", "5", "6", "7", "8", "9", ":", ";", "<", "=", ">", "?", "@",
    "A", "B", "C", "D", "E", "F", "G", "H", "I", "J", "K", "L", "M", "N", "O", "P", "Q",
    "R", "S", "T", "U", "V", "W", "X", "Y", "Z", "[", "\\", "]", "^", "_", GraveAccent,
    "a", "b", "c", "d", "e", "f", "g", "h", "i", "j", "k", "l", "m", "n", "o", "p", "q",
    "r", "s", "t", "u", "v", "w", "x", "y", "z", "{", "|", "}", "~">>

\* c.charCodeAt(0), counted from the first printable character.
CharCode(c) == CHOOSE i \in 1..Len(CodeUnits) : CodeUnits[i] = c

\* The default comparison of Array.prototype.sort: a sorts before b when it
\* is smaller in code-unit order.
RECURSIVE CompareStringsReversed(_, _)
CompareStringsReversed(a, b) ==
  IF a = <<>> THEN FALSE
  ELSE IF b = <<>> THEN TRUE
  ELSE IF Head(a) = Head(b) THEN CompareStringsReversed(Tail(a), Tail(b))
  ELSE CharCode(Head(a)) > CharCode(Head(b))

RECURSIVE CompareStrings(_, _)
CompareStrings(a, b) ==
  IF b = <<>> THEN FALSE
  ELSE IF a = <<>> THEN TRUE
  ELSE IF Head(a) = Head(b) THEN CompareStrings(Tail(a), Tail(b))
  ELSE CharCode(Head(a)) < CharCode(Head(b))

\* [...usedIcons].sort()
RECURSIVE SortStrings(_)
SortStrings(usedIcons) ==
  IF usedIcons = {} THEN <<>>
  ELSE LET first == CHOOSE a \in usedIcons : \A b \in usedIcons \ {a} : CompareStrings(a, b)
       IN <<first>> \o SortStrings(usedIcons \ {first})

\* JSON.stringify of a string: quotes, with quote and backslash escaped.
RECURSIVE Escape(_)
Escape(s) ==
  IF s = <<>> THEN <<>>
  ELSE IF Head(s) \in {"\"", "\\"} THEN <<"\\", Head(s)>> \o Escape(Tail(s))
  ELSE <<Head(s)>> \o Escape(Tail(s))

Quote(s) == <<"\"">> \o Escape(s) \o <<"\"">>

\* JSON.stringify(newSafelist, null, 2)
Stringify(newSafelist) ==
  IF newSafelist = <<>> THEN <<"[", "]">>
  ELSE <<"[", "\n">>
         \o Join([i \in 1..Len(newSafelist) |-> <<" ", " ">> \o Quote(newSafelist[i])],
                 <<",", "\n">>)
         \o <<"\n", "]">>

\* Object.values(customFileIcons)
Values(customFileIcons) == {customFileIcons[2][k] : k \in DOMAIN customFileIcons[2]}

\* ------------------------------------------------------ safelist: the sites

\* What a scan finds on disk: the code-fence matches of the content files
\* (every fence matches codeBlockRegex, the closing ones with neither group),
\* the bodies of the <FileTree> blocks, the iconClassRegex matches in the
\* astro.config files, and the customFileIcons option.
NoContent ==
  [codeBlocks |-> <<>>, fileTrees |-> <<>>, config |-> {}, customFileIcons |-> UNDEFINED]

FencedBlock ==
  [codeBlocks |-> <<[lang |-> <<"a">>, title |-> <<"a", ".", "a">>],
                    [lang |-> UNDEFINED, title |-> UNDEFINED]>>,
   fileTrees |-> <<>>, config |-> {ClassX}, customFileIcons |-> UNDEFINED]

TreeWithOverrides ==
  [codeBlocks |-> <<[lang |-> <<"s", "h">>, title |-> UNDEFINED]>>,
   fileTrees |-> << <<"\n", "-", " ", "a", "/", "\n", " ", " ", "-", " ", "a", ".", "a", "\n">> >>,
   config |-> {},
   customFileIcons |-> Rec((<<"a", ".", "a">> :> ClassY) @@ (<<"a">> :> ClassX))]

ClosingFenceOnly ==
  [codeBlocks |-> <<[lang |-> UNDEFINED, title |-> UNDEFINED]>>,
   fileTrees |-> <<>>, config |-> {}, customFileIcons |-> UNDEFINED]

Sites == <<NoContent, FencedBlock, TreeWithOverrides, ClosingFenceOnly>>

\* The concatenation of the lookups of the blocks `fileTrees`.
RECURSIVE AllFileTreeLookups(_)
AllFileTreeLookups(fileTrees) ==
  IF fileTrees = <<>> THEN <<>>
  ELSE FileTreeLookups(Head(fileTrees)) \o AllFileTreeLookups(Tail(fileTrees))

\* The two loops over a file's matches, as the list of lookups they await.
SiteWork(s) ==
  [i \in 1..Len(s.codeBlocks) |->
     [kind |-> "code", lang |-> s.codeBlocks[i].lang, title |-> s.codeBlocks[i].title]]
    \o AllFileTreeLookups(s.fileTrees)

\* ------------------------------------------- safelist: the icon data it reads

\* The tables the remote source serves for version v.
DefinitionsAt(v) ==
  IF v = 1 THEN FileIconNames \cup FolderIconNames ELSE {IconN, IconF}

\* { languageMap, materialIcons } parsed from the two tables.
IconData(languageMap, materialIcons) ==
  <<"data", [languageMap |-> MkData(DefinitionsAt(languageMap[2]))[2].languageMap,
             materialIcons |-> MkData(DefinitionsAt(materialIcons[2]))[2].materialIcons]>>

\* The in-memory cache and the cache directory, as getMaterialIconsData sees them.
StoreState ==
  [cachedData |-> cachedData, versionFile |-> versionFile,
   languageMapFile |-> languageMapFile, materialIconsFile |-> materialIconsFile,
   cacheDir |-> cacheDir]

\* The cache directory after the writes `written` of the three succeeded.
AfterWrites(st, written) ==
  [st EXCEPT
     !.versionFile = IF "version" \in written THEN Ver(remoteVersion) ELSE @,
     !.languageMapFile = IF "languageMap" \in written THEN Tab(remoteVersion) ELSE @,
     !.materialIconsFile = IF "materialIcons" \in written THEN Tab(remoteVersion) ELSE @]

\* One getMaterialIconsData() call from entry to return with no other call in
\* between: what it returns and what it leaves.  `hit` is the `if (cachedData)`
\* test at entry.
DataCalls(st, hit) ==
  IF hit THEN {[data |-> st.cachedData, st |-> st]}
  ELSE LET fresh == /\ st.versionFile = Ver(remoteVersion)
                    /\ IsTable(st.languageMapFile) /\ IsTable(st.materialIconsFile)
           loaded == IconData(st.languageMapFile, st.materialIconsFile)
           fetched == IconData(Tab(remoteVersion), Tab(remoteVersion))
       IN {[data |-> UNDEFINED, st |-> st]}
            \cup (IF fresh
                  THEN {[data |-> loaded, st |-> [st EXCEPT !.cachedData = loaded]]}
                  ELSE {[data |-> fetched,
                         st |-> [AfterWrites(st, CacheFiles) EXCEPT !.cachedData = fetched,
                                                                    !.cacheDir = TRUE]]}
                         \cup {[data |-> UNDEFINED,
                                st |-> [AfterWrites(st, written) EXCEPT !.cacheDir = TRUE]] :
                                 written \in (SUBSET CacheFiles) \ {CacheFiles}})

\* The store after a call left it as `st`.
StoreBecomes(st) ==
  /\ cachedData' = st.cachedData
  /\ versionFile' = st.versionFile
  /\ languageMapFile' = st.languageMapFile
  /\ materialIconsFile' = st.materialIconsFile
  /\ cacheDir' = st.cacheDir

\* ------------------------------------------------------- safelist: the run

IdleRun == [pc |-> "idle"]
NoRun == [pc |-> "none"]

\* usedIcons.add(iconClass) under `if (iconClass)`.
AddIcon(usedIcons, iconClass) ==
  IF Truthy(iconClass) THEN usedIcons \cup {iconClass} ELSE usedIcons

\* The run after a lookup that added `icons` and was served `data`.
AfterLookup(icons, data) ==
  [run EXCEPT !.work = Tail(@), !.usedIcons = icons, !.served = Append(@, data)]

\* The content, configuration or options are edited between two runs.
EditSite(s) ==
  /\ run = IdleRun
  /\ s # site
  /\ site' = s
  /\ UNCHANGED <<customFileIconsMap, spiCustomFileIcons, cachedData, versionFile,
                 languageMapFile, materialIconsFile, remoteVersion, run, prevRun,
                 safelistFile, cacheDir, outsideSafelist>>

\* The process ends and a new one starts: module state and globalThis are new.
Restart ==
  /\ run = IdleRun
  /\ prevRun # NoRun
  /\ customFileIconsMap' = NULL
  /\ spiCustomFileIcons' = NULL
  /\ cachedData' = NULL
  /\ UNCHANGED <<versionFile, languageMapFile, materialIconsFile, remoteVersion, site, run,
                 prevRun, safelistFile, cacheDir, outsideSafelist>>

\* The astro:config:setup hook up to the first await of generateSafelist.
ConfigSetup ==
  /\ run = IdleRun
  /\ LET customFileIcons == Sites[site].customFileIcons
     IN /\ customFileIconsMap' =
             (IF customFileIcons # UNDEFINED THEN OrNull(customFileIcons)
              ELSE customFileIconsMap)
        /\ spiCustomFileIcons' =
             (IF customFileIcons # UNDEFINED THEN customFileIconsMap' ELSE spiCustomFileIcons)
  /\ run' = [pc |-> "scan", site |-> site, work |-> SiteWork(Sites[site]), usedIcons |-> {},
             served |-> <<>>, customIcons |-> GetCustomFileIcons',
             fileBefore |-> safelistFile, storeBefore |-> StoreState,
             result |-> NONE]
  /\ UNCHANGED <<cachedData, versionFile, languageMapFile, materialIconsFile, remoteVersion,
                 site, prevRun, safelistFile, cacheDir, outsideSafelist>>

\* One code-fence match: getIconDetails(title, lang) and the add.
LookupCodeBlock ==
  /\ run.pc = "scan" /\ run.work # <<>> /\ Head(run.work).kind = "code"
  /\ LET item == Head(run.work)
         customIcon == CustomFileIcon(item.title, GetCustomFileIcons)
     IN IF item.lang = <<"s", "h">>
        THEN /\ run' = [run EXCEPT !.work = Tail(@)]
             /\ UNCHANGED <<cachedData, versionFile, languageMapFile, materialIconsFile, cacheDir>>
        ELSE IF customIcon # UNDEFINED
        THEN /\ run' = AfterLookup(AddIcon(run.usedIcons, customIcon), NULL)
             /\ UNCHANGED <<cachedData, versionFile, languageMapFile, materialIconsFile, cacheDir>>
        ELSE \E c \in DataCalls(StoreState, cachedData # NULL) :
               /\ run' = AfterLookup(AddIcon(run.usedIcons,
                                             ResolveIconWithData(item.title, item.lang, c.data)),
                                     c.data)
               /\ StoreBecomes(c.st)
  /\ UNCHANGED <<customFileIconsMap, spiCustomFileIcons, remoteVersion, site, prevRun,
                 safelistFile, outsideSafelist>>

\* One file entry of a FileTree: resolveIcon(entryName, undefined)() and the add.
LookupFile ==
  /\ run.pc = "scan" /\ run.work # <<>> /\ Head(run.work).kind = "file"
  /\ LET item == Head(run.work)
         customIcon == CustomFileIcon(item.name, GetCustomFileIcons)
     IN IF customIcon # UNDEFINED
        THEN /\ run' = AfterLookup(AddIcon(run.usedIcons, customIcon), NULL)
             /\ UNCHANGED <<cachedData, versionFile, languageMapFile, materialIconsFile, cacheDir>>
        ELSE \E c \in DataCalls(StoreState, cachedData # NULL) :
               /\ run' = AfterLookup(AddIcon(run.usedIcons,
                                             ResolveIconWithData(item.name, UNDEFINED, c.data)),
                                     c.data)
               /\ StoreBecomes(c.st)
  /\ UNCHANGED <<customFileIconsMap, spiCustomFileIcons, remoteVersion, site, prevRun,
                 safelistFile, outsideSafelist>>

\* The calls one resolveFolderIcon(folderName, isOpen)() makes to the store.
FolderDataCalls(folderName, isOpen, st, hit) ==
  IF CustomFolderIcon(folderName, isOpen, GetCustomFileIcons) # UNDEFINED
  THEN {[data |-> NULL, st |-> st]}
  ELSE DataCalls(st, hit)

\* One directory entry of a FileTree: the closed and the open lookup under
\* Promise.all (both make the `if (cachedData)` test before either goes on)
\* and the two adds.
LookupFolder ==
  /\ run.pc = "scan" /\ run.work # <<>> /\ Head(run.work).kind = "folder"
  /\ LET folderName == Head(run.work).name
         hit == cachedData # NULL
     IN \E closed \in FolderDataCalls(folderName, FALSE, StoreState, hit) :
          \E open \in FolderDataCalls(folderName, TRUE, closed.st, hit) :
            LET closedIcon == ResolveFolderIconResult(folderName, FALSE, GetCustomFileIcons,
                                                      closed.data)
                openIcon == ResolveFolderIconResult(folderName, TRUE, GetCustomFileIcons,
                                                    open.data)
            IN /\ run' = [run EXCEPT
                            !.work = Tail(@),
                            !.usedIcons = AddIcon(AddIcon(@, closedIcon), openIcon),
                            !.served = @ \o <<closed.data, open.data>>]
               /\ StoreBecomes(open.st)
  /\ UNCHANGED <<customFileIconsMap, spiCustomFileIcons, remoteVersion, site, prevRun,
                 safelistFile, outsideSafelist>>

\* usedIcons after the astro.config scan and the customFileIcons values.
AllUsedIcons(r) ==
  r.usedIcons \cup Sites[r.site].config
    \cup (IF Sites[r.site].customFileIcons # UNDEFINED
          THEN Values(Sites[r.site].customFileIcons) ELSE {})

NewSafelistJSON(r) == Stringify(SortStrings(AllUsedIcons(r)))

\* `currentSafelist === newSafelistJSON` once the read succeeded.
SafelistNeverUpToDate(currentSafelist, newSafelistJSON) == FALSE
SafelistUpToDate(currentSafelist, newSafelistJSON) ==
  currentSafelist # MISSING /\ currentSafelist = newSafelistJSON

\* The catch block of the read: `newSafelist.length === 0`.
NothingToWrite(currentSafelist, newSafelist) ==
  currentSafelist = MISSING /\ Len(newSafelist) = 0

\* The run is past its scan and does not return false.
MustWrite ==
  /\ run.pc = "scan" /\ run.work = <<>>
  /\ ~SafelistUpToDate(safelistFile, NewSafelistJSON(run))
  /\ ~NothingToWrite(safelistFile, SortStrings(AllUsedIcons(run)))

\* `return false`: the file is up to date, or is missing with nothing to write.
ReturnFalse ==
  /\ run.pc = "scan" /\ run.work = <<>>
  /\ \/ SafelistUpToDate(safelistFile, NewSafelistJSON(run))
     \/ NothingToWrite(safelistFile, SortStrings(AllUsedIcons(run)))
  /\ run' = [run EXCEPT !.pc = "returned", !.usedIcons = AllUsedIcons(run), !.result = FALSE]
  /\ UNCHANGED <<customFileIconsMap, spiCustomFileIcons, cachedData, versionFile,
                 languageMapFile, materialIconsFile, remoteVersion, site, prevRun,
                 safelistFile, cacheDir, outsideSafelist>>

\* mkdir, writeFile, `return true`.
WriteSafelist ==
  /\ MustWrite
  /\ cacheDir' = TRUE
  /\ safelistFile' = NewSafelistJSON(run)
  /\ run' = [run EXCEPT !.pc = "returned", !.usedIcons = AllUsedIcons(run), !.result = TRUE]
  /\ UNCHANGED <<customFileIconsMap, spiCustomFileIcons, cachedData, versionFile,
                 languageMapFile, materialIconsFile, remoteVersion, site, prevRun,
                 outsideSafelist>>

\* mkdir or writeFile rejects: generateSafelist rejects, the file is as it
\* was or cut to nothing.
WriteSafelistFails ==
  /\ MustWrite
  /\ \/ UNCHANGED <<cacheDir, safelistFile>>
     \/ cacheDir' = TRUE /\ safelistFile' \in {safelistFile, <<>>}
  /\ run' = [run EXCEPT !.pc = "threw", !.usedIcons = AllUsedIcons(run)]
  /\ UNCHANGED <<customFileIconsMap, spiCustomFileIcons, cachedData, versionFile,
                 languageMapFile, materialIconsFile, remoteVersion, site, prevRun,
                 outsideSafelist>>

\* The hook is over; the run is remembered as the previous one.
HookDone ==
  /\ run.pc \in {"returned", "threw"}
  /\ prevRun' = [pc |-> run.pc, site |-> run.site, usedIcons |-> run.usedIcons,
                 served |-> run.served, customIcons |-> run.customIcons,
                 result |-> run.result, fileAfter |-> safelistFile]
  /\ run' = IdleRun
  /\ UNCHANGED <<customFileIconsMap, spiCustomFileIcons, cachedData, versionFile,
                 languageMapFile, materialIconsFile, remoteVersion, site, safelistFile,
                 cacheDir, outsideSafelist>>

\* A new process in a checkout whose cache directory is absent, empty, or was
\* left by earlier runs: icon tables complete for some version, a safelist of
\* an earlier state of the site.
InitSafelist ==
  /\ customFileIconsMap = NULL
  /\ spiCustomFileIcons = NULL
  /\ cachedData = NULL
  /\ remoteVersion \in 1..MaxVersion
  /\ \/ versionFile = MISSING /\ languageMapFile = MISSING /\ materialIconsFile = MISSING
     \/ \E v \in 1..remoteVersion :
          versionFile = Ver(v) /\ languageMapFile = Tab(v) /\ materialIconsFile = Tab(v)
  /\ safelistFile \in {MISSING, Stringify(<<>>), Stringify(<<ClassX, ClassZ>>)}
  /\ cacheDir \in BOOLEAN
  /\ (versionFile # MISSING \/ safelistFile # MISSING) => cacheDir
  /\ site \in 1..Len(Sites)
  /\ run = IdleRun
  /\ prevRun = NoRun
  /\ call = NoCall /\ callers = <<>> /\ assignments = 0 /\ TreeUnused

NextSafelist ==
  \/ \E s \in 1..Len(Sites) : EditSite(s)
  \/ Restart
  \/ ConfigSetup
  \/ LookupCodeBlock
  \/ LookupFile
  \/ LookupFolder
  \/ ReturnFalse
  \/ WriteSafelist
  \/ WriteSafelistFails
  \/ HookDone

SpecSafelist == InitSafelist /\ [][NextSafelist]_vars

\* ------------------------------------------------- the safelist's properties

\* a comes strictly before b in code-unit order, said directly: they agree up
\* to some position where a has ended or holds the smaller character.
Precedes(a, b) ==
  \E k \in 1..Len(b) :
    /\ k - 1 <= Len(a)
    /\ \A j \in 1..(k - 1) : a[j] = b[j]
    /\ (k > Len(a) \/ CharCode(a[k]) < CharCode(b[k]))

\* The one arrangement of `icons` without repetition in ascending order.
Ascending(icons) ==
  [i \in 1..Cardinality(icons) |->
     CHOOSE a \in icons : Cardinality({b \in icons : Precedes(b, a)}) = i - 1]

\* The text safelist.json is to hold for the icon set `icons`.
Serialized(icons) == Stringify(Ascending(icons))

\* Two runs in a row over the same content, configuration and options, both
\* of which returned.
RanTwice ==
  /\ run.pc = "returned"
  /\ prevRun.pc = "returned"
  /\ run.site = prevRun.site

\* The directory .starlight-icons and the icon data files in it are as they
\* were when the run started.
CacheDirUntouched ==
  /\ cacheDir = run.storeBefore.cacheDir
  /\ versionFile = run.storeBefore.versionFile
  /\ languageMapFile = run.storeBefore.languageMapFile
  /\ materialIconsFile = run.storeBefore.materialIconsFile

\* No lookup of the run went past the in-memory cache of the icon data store.
NoStoreLoad ==
  \/ run.storeBefore.cachedData # NULL
  \/ \A i \in 1..Len(run.served) : run.served[i] = NULL

\* C3 as stated: the second of two runs in a row over unchanged content,
\* configuration and overrides returns false and leaves safelist.json as the
\* first run left it (absent when the first run created no file).
C3_SecondRunUnchanged ==
  RanTwice => run.result = FALSE /\ safelistFile = prevRun.fileAfter

\* C3: the second of two runs in a row over unchanged content, configuration
\* and overrides, both of which return, with the same override map in effect
\* and every icon lookup of the second served the same icon data as the
\* corresponding lookup of the first, returns false and leaves safelist.json
\* byte-identical to what the first run left (absent when it created no file).
C3_SecondRunUnchangedOnSameData ==
  (RanTwice /\ run.customIcons = prevRun.customIcons /\ run.served = prevRun.served)
    => run.result = FALSE /\ safelistFile = prevRun.fileAfter

\* A second run over the same inputs and the same served icon data, after a
\* first run that wrote icons resolved from the tables.
C3_Witness ==
  /\ RanTwice
  /\ run.customIcons = prevRun.customIcons
  /\ run.served = prevRun.served
  /\ prevRun.result = TRUE
  /\ run.result = FALSE
  /\ \E i \in 1..Len(run.served) : run.served[i] \notin {NULL, UNDEFINED}
  /\ safelistFile = Serialized(run.usedIcons)

\* The first three parts of C4 for a run that returned: true exactly when the
\* serialization differs from the previous file, except false for a missing
\* file and an empty set; false leaves the file alone; an existing file holds
\* exactly this run's set, sorted and without repetition.
WritesExactlyOnChange ==
  /\ run.result = TRUE <=>
       /\ run.fileBefore # Serialized(run.usedIcons)
       /\ ~(run.fileBefore = MISSING /\ run.usedIcons = {})
  /\ run.result = FALSE => safelistFile = run.fileBefore
  /\ run.result = TRUE => safelistFile = Serialized(run.usedIcons) /\ cacheDir
  /\ safelistFile # MISSING => safelistFile = Serialized(run.usedIcons)

\* C4 as stated: a run writes and returns true exactly on a change, with the
\* missing-and-empty exception; whenever it returns false the file and the
\* cache directory are untouched; an existing file holds the last run's set.
C4_FalseLeavesCacheDirUntouched ==
  run.pc = "returned" =>
    /\ WritesExactlyOnChange
    /\ run.result = FALSE => CacheDirUntouched

\* C4: a run that returns writes safelist.json and returns true exactly when
\* the sorted, deduplicated serialization of its icon set differs from the
\* previous file, except false and no file for a missing file and an empty
\* set; when it returns false safelist.json is untouched, and the cache
\* directory is untouched too unless a lookup of the run made the icon data
\* store load its tables; an existing file holds exactly the returning run's
\* set, not an accumulation.
C4_WritesExactlyOnChange ==
  run.pc = "returned" =>
    /\ WritesExactlyOnChange
    /\ (run.result = FALSE /\ NoStoreLoad) => CacheDirUntouched

\* A run that replaces the safelist of a different earlier run: icons of the
\* earlier set are gone, and the new set has several entries to order.
C4_Witness ==
  /\ run.pc = "returned" /\ run.result = TRUE
  /\ prevRun.pc = "returned" /\ prevRun.fileAfter # MISSING
  /\ run.fileBefore = prevRun.fileAfter
  /\ prevRun.usedIcons \ run.usedIcons # {}
  /\ Cardinality(run.usedIcons) >= 2
  /\ safelistFile = Serialized(run.usedIcons)

====
